---------------------------- MODULE Spec2Model ----------------------------
(***************************************************************************)
(* Offline todo synchronisation: the syncTodos handler (batch reconcile    *)
(* with last-writer-wins conflict detection) and the getTodos query, over  *)
(* the users / categories / todos tables.                                  *)
(*                                                                         *)
(* Timestamps are integers read from one clock `now`.  A nullable column   *)
(* holds Null, an omitted optional input field holds Undef.  Text values   *)
(* other than the title are small integers.                                *)
(***************************************************************************)
EXTENDS Integers, Sequences, FiniteSets, TLC

VARIABLES
    users,        \* usersTable: set of [id, is_admin]
    categories,   \* categoriesTable: set of category ids
    todos,        \* todosTable: set of rows, id is the primary key
    nextId,       \* the serial sequence behind todos.id
    now,          \* the clock read by new Date() and defaultNow()
    pc,           \* position of the syncTodos call: idle, running, returned, failed
    caller,       \* input.user_id of the call
    batch,        \* input.todos of the call
    idx,          \* index of the entry the for-loop processes next
    synced,       \* the handler's synced array
    conflicts,    \* the handler's conflicts array
    err,          \* the error the call threw ("none" while it has thrown nothing)
    attempt,      \* 1 for a first submission, 2 once the same input was sent again
    firstSynced,  \* the synced list the client got from the first submission
    op,           \* the last direct handler call: its name and input
    ret,          \* its outcome: [ok |-> TRUE, value |-> what it returned] or
                  \* [ok |-> FALSE, error |-> what it threw]
    calls         \* two syncTodos calls in flight at once, each with one update
                  \* entry: position, entry, the row it selected, its two arrays

vars == <<users, categories, todos, nextId, now, pc, caller, batch, idx,
          synced, conflicts, err, attempt, firstSynced, op, ret, calls>>

\* the variables of the syncTodos call that is followed entry by entry
loopVars == <<pc, caller, batch, idx, synced, conflicts, err, attempt,
              firstSynced>>

\* the variables of all syncTodos calls
syncVars == <<loopVars, calls>>

\* ------------------------------------------------------------------ values

Null == -1

Undef == -2

MaxBatch == 3

\* the largest todo id createTodo may issue
MaxId == 3

\* the largest clock value a direct handler may read
MaxTime == 2

\* client_updated_at values a client may claim
ClientTimes == {0, 1, 2}

\* user_id values of a call: u1 is a user, ghost is not
Callers == {"u1", "ghost"}

\* ------------------------------------------------------------------ inputs

mkEntry(id, cat, title, desc, done, due, prio, cua, del) ==
    [id |-> id, category_id |-> cat, title |-> title, description |-> desc,
     is_completed |-> done, due_date |-> due, priority |-> prio,
     client_updated_at |-> cua, is_deleted |-> del]

\* an entry that leaves every optional field out (schema defaults applied)
plain(id, cua, del) ==
    mkEntry(id, Undef, "a", Undef, FALSE, Undef, "medium", cua, del)

\* an entry that sets every field, with an existing category
full(id, cua, del) ==
    mkEntry(id, 1, "b", Null, TRUE, 2, "high", cua, del)

\* an entry that clears the category
uncat(id, cua, del) ==
    mkEntry(id, Null, "b", 2, TRUE, Null, "low", cua, del)

\* an entry that names a category that does not exist
orphan(id, cua, del) ==
    mkEntry(id, 2, "a", Undef, FALSE, Undef, "medium", cua, del)

\* Ids in entries: 1 is a row of u1, 2 a row of u2, 3 is no row at the
\* start, 0 is the id that `if (todoData.id)` takes for no id.
CreateEntries ==
    {plain(Undef, t, FALSE) : t \in {0, 2}} \cup {full(Undef, 1, FALSE)}
        \cup {plain(0, 1, FALSE)}

UpdateEntries ==
    {plain(1, t, FALSE) : t \in ClientTimes}
        \cup {full(1, t, FALSE) : t \in ClientTimes}
        \cup {uncat(1, 2, FALSE)}
        \cup {full(i, 2, FALSE) : i \in {2, 3}}

DeleteEntries ==
    {plain(i, t, TRUE) : i \in {1, 2, 3}, t \in {0, 2}}
        \cup {plain(Undef, 1, TRUE)}

OrphanEntries ==
    {orphan(Undef, 1, FALSE), orphan(1, 2, FALSE), orphan(1, 2, TRUE)}

Entries == CreateEntries \cup UpdateEntries \cup DeleteEntries \cup OrphanEntries

Batches == UNION {[1..n -> Entries] : n \in 0..MaxBatch}

\* ------------------------------------------------------------------ store

mkRow(id, uid, cat, title, desc, done, due, prio, ca, ua, lsa, cua) ==
    [id |-> id, user_id |-> uid, category_id |-> cat, title |-> title,
     description |-> desc, is_completed |-> done, due_date |-> due,
     priority |-> prio, created_at |-> ca, updated_at |-> ua,
     last_synced_at |-> lsa, client_updated_at |-> cua]

\* `if (todoData.id)`: undefined and 0 are both falsy
hasId(e) == e.id # Undef /\ e.id # 0

\* the filter `id !== null && id !== undefined`
isGiven(v) == v # Null /\ v # Undef

\* mutant: the user check is skipped
userExistsUnchecked(uid) == TRUE

userExists(uid) == \E u \in users : u.id = uid

\* mutant: only the entries that are not deleted are validated
categoryIdsOfLive(b) ==
    LET live == SelectSeq(b, LAMBDA x : ~x.is_deleted)
        cats == [i \in 1..Len(live) |-> live[i].category_id]
    IN  SelectSeq(cats, isGiven)

\* the category ids the batch references, in batch order
categoryIds(b) ==
    LET cats == [i \in 1..Len(b) |-> b[i].category_id]
    IN  SelectSeq(cats, isGiven)

\* some referenced category is not in categoriesTable
categoryMissing(b) ==
    \E i \in 1..Len(categoryIds(b)) : categoryIds(b)[i] \notin categories

\* mutant: the row is matched by id alone
whereIdOnly(r, id, uid) == r.id = id

\* and(eq(todosTable.id, id), eq(todosTable.user_id, uid))
whereIdUser(r, id, uid) == r.id = id /\ r.user_id = uid

\* mutant: the existing row is selected by id alone
selectTodoAnyOwner(store, id, uid) == {r \in store : r.id = id}

selectTodo(store, id, uid) == {r \in store : whereIdUser(r, id, uid)}

\* mutant: the delete statement matches the id alone
deleteTodoRowsAnyOwner(store, id, uid) == {r \in store : r.id # id}

\* mutant: the delete statement removes nothing
deleteTodoRowsNone(store, id, uid) == store

deleteTodoRows(store, id, uid) == {r \in store : ~whereIdUser(r, id, uid)}

\* mutant: compares the row's client clock instead of its server clock
hasConflictClientClock(existing, e) ==
    existing.client_updated_at > e.client_updated_at

\* mutant: a tie counts as a conflict
hasConflictOnTie(existing, e) == existing.updated_at >= e.client_updated_at

hasConflict(existing, e) == existing.updated_at > e.client_updated_at

\* .set(): a key whose value is undefined is left out of the UPDATE (title,
\* is_completed and priority are never undefined in a parsed SyncTodosInput)
setField(old, new) == IF new = Undef THEN old ELSE new

\* mutant: the server clock of the row is not advanced
updateSetKeepsClock(r, e, t) ==
    [r EXCEPT !.category_id = setField(@, e.category_id),
              !.title = e.title,
              !.description = setField(@, e.description),
              !.is_completed = e.is_completed,
              !.due_date = setField(@, e.due_date),
              !.priority = e.priority,
              !.last_synced_at = t,
              !.client_updated_at = e.client_updated_at]

updateSet(r, e, t) ==
    [r EXCEPT !.category_id = setField(@, e.category_id),
              !.title = e.title,
              !.description = setField(@, e.description),
              !.is_completed = e.is_completed,
              !.due_date = setField(@, e.due_date),
              !.priority = e.priority,
              !.updated_at = t,
              !.last_synced_at = t,
              !.client_updated_at = e.client_updated_at]

updateTodoRows(store, id, uid, e, t) ==
    {IF whereIdUser(r, id, uid) THEN updateSet(r, e, t) ELSE r : r \in store}

\* .values(): a key whose value is undefined takes the column default, NULL
insertField(v) == IF v = Undef THEN Null ELSE v

\* mutant: last_synced_at is left at its column default
insertValuesUnsynced(id, uid, e, t) ==
    mkRow(id, uid, insertField(e.category_id), e.title,
          insertField(e.description), e.is_completed, insertField(e.due_date),
          e.priority, t, t, Null, e.client_updated_at)

insertValues(id, uid, e, t) ==
    mkRow(id, uid, insertField(e.category_id), e.title,
          insertField(e.description), e.is_completed, insertField(e.due_date),
          e.priority, t, t, t, e.client_updated_at)

\* ------------------------------------------------------------------ Init

\* the two calls that run at the same time
RaceIds == {"a", "b"}

\* a call that has not been made
idleCall == [pc |-> "idle", entry |-> <<>>, existing |-> <<>>,
             synced |-> <<>>, conflicts |-> <<>>]


\* The store after createTodo by u1 and by u2 at time 1, one category.
Init ==
    /\ users = {[id |-> "u1", is_admin |-> FALSE], [id |-> "u2", is_admin |-> TRUE]}
    /\ categories = {1}
    /\ todos = {mkRow(1, "u1", 1, "s", 1, FALSE, Null, "medium", 1, 1, 1, 1),
                mkRow(2, "u2", Null, "s", Null, FALSE, 1, "medium", 1, 1, 1, 1)}
    /\ nextId = 3
    /\ now = 1
    /\ pc = "idle"
    /\ caller = "u1"
    /\ batch = <<>>
    /\ idx = 1
    /\ synced = <<>>
    /\ conflicts = <<>>
    /\ err = "none"
    /\ attempt = 1
    /\ firstSynced = <<>>
    /\ op = [name |-> "none"]
    /\ ret = [ok |-> TRUE]
    /\ calls = [c \in RaceIds |-> idleCall]

\* ------------------------------------------------------------------ syncTodos

\* entry of the handler up to the for-loop: user check, category check
SyncBegin(uid, b) ==
    /\ caller' = uid
    /\ batch' = b
    /\ idx' = 1
    /\ synced' = <<>>
    /\ conflicts' = <<>>
    /\ IF ~userExists(uid)
         THEN pc' = "failed" /\ err' = "user_not_found"
         ELSE IF categoryMissing(b)
                THEN pc' = "failed" /\ err' = "category_not_found"
                ELSE /\ pc' = IF Len(b) = 0 THEN "returned" ELSE "running"
                     /\ err' = "none"
    /\ UNCHANGED <<users, categories, todos, nextId, now>>

\* a client calls syncTodos
SyncStart ==
    /\ pc = "idle"
    /\ \E uid \in Callers, b \in Batches : SyncBegin(uid, b)
    /\ UNCHANGED <<attempt, firstSynced, op, ret, calls>>

\* the loop moves to the next entry, or the handler returns
Advance ==
    /\ idx' = idx + 1
    /\ pc' = IF idx = Len(batch) THEN "returned" ELSE "running"
    /\ err' = "none"

\* mutant: a delete goes through the conflict check of an update
SyncDeleteChecksConflict(e) ==
    /\ e.is_deleted
    /\ LET existingTodos == IF hasId(e) THEN selectTodo(todos, e.id, caller)
                                        ELSE {}
       IN IF \E r \in existingTodos : hasConflict(r, e)
          THEN /\ conflicts' = Append(conflicts,
                                      CHOOSE r \in existingTodos : TRUE)
               /\ UNCHANGED todos
          ELSE /\ todos' = IF hasId(e)
                           THEN deleteTodoRows(todos, e.id, caller) ELSE todos
               /\ UNCHANGED conflicts
    /\ Advance
    /\ UNCHANGED <<nextId, synced>>

\* mutant: a delete that matches no row throws, as the update does
SyncDeleteStrict(e) ==
    /\ e.is_deleted
    /\ IF hasId(e) /\ selectTodo(todos, e.id, caller) = {}
         THEN /\ pc' = "failed"
              /\ err' = "todo_not_found"
              /\ UNCHANGED <<todos, nextId, synced, conflicts, idx>>
         ELSE /\ todos' = IF hasId(e) THEN deleteTodoRows(todos, e.id, caller)
                                      ELSE todos
              /\ Advance
              /\ UNCHANGED <<nextId, synced, conflicts>>

\* mutant: the delete is acknowledged but the row stays
SyncDeleteKeepsRow(e) ==
    /\ e.is_deleted
    /\ Advance
    /\ UNCHANGED <<todos, nextId, synced, conflicts>>

\* is_deleted entry
SyncDelete(e) ==
    /\ e.is_deleted
    /\ todos' = IF hasId(e) THEN deleteTodoRows(todos, e.id, caller) ELSE todos
    /\ Advance
    /\ UNCHANGED <<nextId, synced, conflicts>>

\* mutant: an update that matches no row is skipped and the loop goes on
SyncUpdateSkipsMissing(e, t) ==
    /\ ~e.is_deleted
    /\ hasId(e)
    /\ LET existingTodos == selectTodo(todos, e.id, caller) IN
       IF existingTodos = {}
         THEN /\ Advance
              /\ UNCHANGED <<todos, nextId, synced, conflicts>>
         ELSE LET existingTodo == CHOOSE r \in existingTodos : TRUE IN
              IF hasConflict(existingTodo, e)
                THEN /\ conflicts' = Append(conflicts, existingTodo)
                     /\ Advance
                     /\ UNCHANGED <<todos, nextId, synced>>
                ELSE /\ todos' = updateTodoRows(todos, e.id, caller, e, t)
                     /\ LET updatedTodo ==
                              CHOOSE r \in selectTodo(todos', e.id, caller) : TRUE
                        IN  synced' = Append(synced, updatedTodo)
                     /\ Advance
                     /\ UNCHANGED <<nextId, conflicts>>

\* mutant: a conflict is thrown like a failed existence check
SyncUpdateConflictThrows(e, t) ==
    /\ ~e.is_deleted
    /\ hasId(e)
    /\ LET existingTodos == selectTodo(todos, e.id, caller) IN
       IF existingTodos = {}
         THEN /\ pc' = "failed"
              /\ err' = "todo_not_found"
              /\ UNCHANGED <<todos, nextId, synced, conflicts, idx>>
         ELSE LET existingTodo == CHOOSE r \in existingTodos : TRUE IN
              IF hasConflict(existingTodo, e)
                THEN /\ pc' = "failed"
                     /\ err' = "conflict"
                     /\ UNCHANGED <<todos, nextId, synced, conflicts, idx>>
                ELSE /\ todos' = updateTodoRows(todos, e.id, caller, e, t)
                     /\ LET updatedTodo ==
                              CHOOSE r \in selectTodo(todos', e.id, caller) : TRUE
                        IN  synced' = Append(synced, updatedTodo)
                     /\ Advance
                     /\ UNCHANGED <<nextId, conflicts>>

\* mutant: no `continue` after a conflict, the update is applied as well
SyncUpdateFallsThrough(e, t) ==
    /\ ~e.is_deleted
    /\ hasId(e)
    /\ LET existingTodos == selectTodo(todos, e.id, caller) IN
       IF existingTodos = {}
         THEN /\ pc' = "failed"
              /\ err' = "todo_not_found"
              /\ UNCHANGED <<todos, nextId, synced, conflicts, idx>>
         ELSE LET existingTodo == CHOOSE r \in existingTodos : TRUE IN
              /\ conflicts' = IF hasConflict(existingTodo, e)
                                THEN Append(conflicts, existingTodo)
                                ELSE conflicts
              /\ todos' = updateTodoRows(todos, e.id, caller, e, t)
              /\ LET updatedTodo ==
                       CHOOSE r \in selectTodo(todos', e.id, caller) : TRUE
                 IN  synced' = Append(synced, updatedTodo)
              /\ Advance
              /\ UNCHANGED nextId

\* entry with an id
SyncUpdate(e, t) ==
    /\ ~e.is_deleted
    /\ hasId(e)
    /\ LET existingTodos == selectTodo(todos, e.id, caller) IN
       IF existingTodos = {}
         THEN /\ pc' = "failed"
              /\ err' = "todo_not_found"
              /\ UNCHANGED <<todos, nextId, synced, conflicts, idx>>
         ELSE LET existingTodo == CHOOSE r \in existingTodos : TRUE IN
              IF hasConflict(existingTodo, e)
                THEN /\ conflicts' = Append(conflicts, existingTodo)
                     /\ Advance
                     /\ UNCHANGED <<todos, nextId, synced>>
                ELSE /\ todos' = updateTodoRows(todos, e.id, caller, e, t)
                     /\ LET updatedTodo ==
                              CHOOSE r \in selectTodo(todos', e.id, caller) : TRUE
                        IN  synced' = Append(synced, updatedTodo)
                     /\ Advance
                     /\ UNCHANGED <<nextId, conflicts>>

\* mutant: the new row is put at the front of synced
SyncCreatePrepends(e, t) ==
    /\ ~e.is_deleted
    /\ ~hasId(e)
    /\ LET newTodo == insertValues(nextId, caller, e, t) IN
       /\ todos' = todos \cup {newTodo}
       /\ synced' = <<newTodo>> \o synced
    /\ nextId' = nextId + 1
    /\ Advance
    /\ UNCHANGED conflicts

\* entry without an id
SyncCreate(e, t) ==
    /\ ~e.is_deleted
    /\ ~hasId(e)
    /\ LET newTodo == insertValues(nextId, caller, e, t) IN
       /\ todos' = todos \cup {newTodo}
       /\ synced' = Append(synced, newTodo)
    /\ nextId' = nextId + 1
    /\ Advance
    /\ UNCHANGED conflicts

\* one iteration of the for-loop; the clock may have moved since the last one
SyncStep ==
    /\ pc = "running"
    /\ \E d \in 0..1 :
         LET e == batch[idx]
             t == now + d
         IN  /\ now' = t
             /\ \/ SyncDelete(e)
                \/ SyncUpdate(e, t)
                \/ SyncCreate(e, t)
    /\ UNCHANGED <<users, categories, caller, batch, attempt, firstSynced,
                   op, ret, calls>>

\* the client sends once more the input of a call that synced every entry
Resubmit ==
    /\ pc = "returned"
    /\ conflicts = <<>>
    /\ attempt = 1
    /\ attempt' = 2
    /\ firstSynced' = synced
    /\ SyncBegin(caller, batch)
    /\ UNCHANGED <<op, ret, calls>>

Next ==
    \/ SyncStart
    \/ SyncStep

Spec == Init /\ [][Next]_vars

NextResync ==
    \/ SyncStart
    \/ SyncStep
    \/ Resubmit

SpecResync == Init /\ [][NextResync]_vars

\* ------------------------------------------------------------------ concurrent syncTodos

\* Two calls of user u1, each with a batch of one update entry, taken one
\* awaited database statement at a time.

RaceUser == "u1"

\* call c is made: the user and category checks, then the loop is entered
RaceCall(c) ==
    /\ calls[c].pc = "idle"
    /\ \E e \in UpdateEntries :
         calls' = [calls EXCEPT ![c] =
                     [@ EXCEPT !.entry = e,
                               !.pc = IF ~userExists(RaceUser)
                                         \/ categoryMissing(<<e>>)
                                      THEN "failed" ELSE "select"]]
    /\ UNCHANGED <<users, categories, todos, nextId, now, op, ret>>
    /\ UNCHANGED loopVars

\* the select of the existing row and the comparison of the two clocks
RaceSelect(c) ==
    /\ calls[c].pc = "select"
    /\ LET e == calls[c].entry
           existingTodos == selectTodo(todos, e.id, RaceUser)
       IN IF existingTodos = {}
          THEN calls' = [calls EXCEPT ![c].pc = "failed"]
          ELSE LET existingTodo == CHOOSE r \in existingTodos : TRUE IN
               IF hasConflict(existingTodo, e)
               THEN calls' = [calls EXCEPT ![c] =
                                [@ EXCEPT !.existing = existingTodo,
                                          !.conflicts = <<existingTodo>>,
                                          !.pc = "returned"]]
               ELSE calls' = [calls EXCEPT ![c] =
                                [@ EXCEPT !.existing = existingTodo,
                                          !.pc = "update"]]
    /\ UNCHANGED <<users, categories, todos, nextId, now, op, ret>>
    /\ UNCHANGED loopVars

\* mutant: the update is conditional on the updated_at the call has seen
RaceUpdateIfUnchanged(c) ==
    /\ calls[c].pc = "update"
    /\ \E d \in 0..1 :
         LET e == calls[c].entry
             t == now + d
             current == selectTodo(todos, e.id, RaceUser)
         IN /\ now' = t
            /\ IF \E r \in current : r.updated_at = calls[c].existing.updated_at
               THEN /\ todos' = updateTodoRows(todos, e.id, RaceUser, e, t)
                    /\ calls' = [calls EXCEPT ![c] =
                         [@ EXCEPT !.synced = <<CHOOSE r \in
                                       selectTodo(todos', e.id, RaceUser) : TRUE>>,
                                   !.pc = "returned"]]
               ELSE /\ UNCHANGED todos
                    /\ calls' = [calls EXCEPT ![c] =
                         [@ EXCEPT !.conflicts = <<CHOOSE r \in current : TRUE>>,
                                   !.pc = "returned"]]
    /\ UNCHANGED <<users, categories, nextId, op, ret>>
    /\ UNCHANGED loopVars

\* the update ... where id and user_id, returning the row
RaceUpdate(c) ==
    /\ calls[c].pc = "update"
    /\ \E d \in 0..1 :
         LET e == calls[c].entry
             t == now + d
         IN /\ now' = t
            /\ todos' = updateTodoRows(todos, e.id, RaceUser, e, t)
            /\ calls' = [calls EXCEPT ![c] =
                  [@ EXCEPT !.synced = <<CHOOSE r \in
                                selectTodo(todos', e.id, RaceUser) : TRUE>>,
                            !.pc = "returned"]]
    /\ UNCHANGED <<users, categories, nextId, op, ret>>
    /\ UNCHANGED loopVars

NextRace ==
    \/ \E c \in RaceIds : RaceCall(c)
    \/ \E c \in RaceIds : RaceSelect(c)
    \/ \E c \in RaceIds : RaceUpdate(c)

SpecRace == Init /\ [][NextRace]_vars

\* ------------------------------------------------------------------ getTodos

\* an optional filter of GetTodosInput: left out, or given one of vs
optional(field, vs) == {<<>>} \cup {[x \in {field} |-> v] : v \in vs}

given(q, field) == field \in DOMAIN q

\* mutant: the user_id condition is missing from the where clause
todoMatchesAnyUser(r, q) ==
    /\ given(q, "category_id") => r.category_id = q.category_id
    /\ given(q, "is_completed") => r.is_completed = q.is_completed
    /\ given(q, "due_before") =>
           r.due_date # Null /\ r.due_date <= q.due_before
    /\ given(q, "due_after") =>
           r.due_date # Null /\ r.due_date >= q.due_after
    /\ given(q, "priority") => r.priority = q.priority
    /\ given(q, "last_synced_after") =>
           r.client_updated_at >= q.last_synced_after

\* mutant: the optional conditions are combined with or instead of and
todoMatchesEither(r, q) ==
    /\ r.user_id = q.user_id
    /\ \/ DOMAIN q = {"user_id"}
       \/ given(q, "category_id") /\ r.category_id = q.category_id
       \/ given(q, "is_completed") /\ r.is_completed = q.is_completed
       \/ given(q, "due_before") /\ r.due_date # Null
             /\ r.due_date <= q.due_before
       \/ given(q, "due_after") /\ r.due_date # Null
             /\ r.due_date >= q.due_after
       \/ given(q, "priority") /\ r.priority = q.priority
       \/ given(q, "last_synced_after")
             /\ r.client_updated_at >= q.last_synced_after

\* mutant: lt / gt on due_date instead of lte / gte
todoMatchesStrictBounds(r, q) ==
    /\ r.user_id = q.user_id
    /\ given(q, "category_id") => r.category_id = q.category_id
    /\ given(q, "is_completed") => r.is_completed = q.is_completed
    /\ given(q, "due_before") =>
           r.due_date # Null /\ r.due_date < q.due_before
    /\ given(q, "due_after") =>
           r.due_date # Null /\ r.due_date > q.due_after
    /\ given(q, "priority") => r.priority = q.priority
    /\ given(q, "last_synced_after") =>
           r.client_updated_at >= q.last_synced_after

\* mutant: last_synced_after is compared with the server's updated_at
todoMatchesServerClock(r, q) ==
    /\ r.user_id = q.user_id
    /\ given(q, "category_id") => r.category_id = q.category_id
    /\ given(q, "is_completed") => r.is_completed = q.is_completed
    /\ given(q, "due_before") =>
           r.due_date # Null /\ r.due_date <= q.due_before
    /\ given(q, "due_after") =>
           r.due_date # Null /\ r.due_date >= q.due_after
    /\ given(q, "priority") => r.priority = q.priority
    /\ given(q, "last_synced_after") =>
           r.updated_at >= q.last_synced_after

\* eq / lte / gte on a nullable column: NULL satisfies no comparison
todoMatches(r, q) ==
    /\ r.user_id = q.user_id
    /\ given(q, "category_id") => r.category_id = q.category_id
    /\ given(q, "is_completed") => r.is_completed = q.is_completed
    /\ given(q, "due_before") =>
           r.due_date # Null /\ r.due_date <= q.due_before
    /\ given(q, "due_after") =>
           r.due_date # Null /\ r.due_date >= q.due_after
    /\ given(q, "priority") => r.priority = q.priority
    /\ given(q, "last_synced_after") =>
           r.client_updated_at >= q.last_synced_after

getTodos(store, q) == {r \in store : todoMatches(r, q)}

Queries ==
    {[user_id |-> u] @@ c @@ d @@ b @@ a @@ p @@ s :
        u \in {"u1", "u2", "ghost"},
        c \in optional("category_id", {1}),
        d \in optional("is_completed", {FALSE}),
        b \in optional("due_before", {2}),
        a \in optional("due_after", {1}),
        p \in optional("priority", {"high"}),
        s \in optional("last_synced_after", {1})}

\* ------------------------------------------------------------------ direct handlers

\* the two outcomes of a handler call
returned(v) == [ok |-> TRUE, value |-> v]

threw(e) == [ok |-> FALSE, error |-> e]

\* `x || null` on a number or text: undefined, null, 0 and "" all give null
\* (the empty text is 0 here)
orNull(v) == IF v \in {Undef, Null, 0} THEN Null ELSE v

\* `x || null` on a Date object: only undefined and null give null
dateOrNull(v) == IF v = Undef THEN Null ELSE v

\* a parsed CreateTodoInput; priority already carries its default
mkCreate(uid, cat, desc, due, prio, cua) ==
    [user_id |-> uid, category_id |-> cat, title |-> "c", description |-> desc,
     due_date |-> due, priority |-> prio, client_updated_at |-> cua]

CreateInputs ==
    {mkCreate("u1", 1, 0, 2, "high", 2),
     mkCreate("u1", Undef, Undef, Undef, "medium", Undef),
     mkCreate("u2", Null, 1, 3, "high", 0),
     mkCreate("u1", 2, Undef, Undef, "medium", 1),
     mkCreate("ghost", Undef, Undef, Undef, "medium", 1)}

\* the fields of an UpdateTodoInput besides id, each left out or given
Patches ==
    {[is_completed |-> TRUE],
     [is_completed |-> TRUE, due_date |-> 2, client_updated_at |-> 2],
     [category_id |-> Null, priority |-> "high", client_updated_at |-> 0],
     [category_id |-> 2]}

UpdateInputs == {[id |-> i] @@ p : i \in {1, 3, MaxId + 1}, p \in Patches}

\* the updates that only tick a todo off
CompleteInputs == {in \in UpdateInputs : DOMAIN in = {"id", "is_completed"}}

DeleteInputs ==
    {[id |-> i, user_id |-> u] : i \in 1..(MaxId + 1), u \in {"u1", "u2", "ghost"}}

\* the clock values a handler running now may read
ClockReads == {t \in {now, now + 1} : t <= MaxTime}

CreateTodo(in) ==
    /\ nextId <= MaxId
    /\ \E t \in ClockReads :
        /\ op' = [name |-> "createTodo", input |-> in]
        /\ IF ~userExists(in.user_id)
           THEN /\ ret' = threw("user_not_found")
                /\ UNCHANGED <<todos, nextId, now>>
           ELSE IF isGiven(in.category_id) /\ in.category_id \notin categories
           THEN /\ ret' = threw("category_not_found")
                /\ UNCHANGED <<todos, nextId, now>>
           ELSE LET row == mkRow(nextId, in.user_id, orNull(in.category_id),
                                 in.title, orNull(in.description), FALSE,
                                 dateOrNull(in.due_date), in.priority, t, t, t,
                                 IF in.client_updated_at = Undef
                                 THEN t ELSE in.client_updated_at)
                IN /\ todos' = todos \cup {row}
                   /\ nextId' = nextId + 1
                   /\ now' = t
                   /\ ret' = returned(row)
    /\ UNCHANGED <<users, categories>>
    /\ UNCHANGED syncVars

\* mutant: the update also writes created_at
updateDataResetsCreated(r, in, t) ==
    [f \in DOMAIN r |->
        IF f \in {"updated_at", "created_at"} THEN t
        ELSE IF f = "client_updated_at"
        THEN (IF given(in, f) THEN in[f] ELSE t)
        ELSE IF f # "id" /\ given(in, f) THEN in[f]
        ELSE r[f]]

\* the row after .set(updateData): only the fields the input carries change
updateData(r, in, t) ==
    [f \in DOMAIN r |->
        IF f = "updated_at" THEN t
        ELSE IF f = "client_updated_at"
        THEN (IF given(in, f) THEN in[f] ELSE t)
        ELSE IF f # "id" /\ given(in, f) THEN in[f]
        ELSE r[f]]

UpdateTodo(in) ==
    /\ \E t \in ClockReads :
        /\ op' = [name |-> "updateTodo", input |-> in]
        /\ LET existing == {r \in todos : r.id = in.id}
           IN IF existing = {}
              THEN /\ ret' = threw("todo_not_found")
                   /\ UNCHANGED <<todos, now>>
              ELSE IF given(in, "category_id") /\ in.category_id # Null
                      /\ in.category_id \notin categories
              THEN /\ ret' = threw("category_not_found")
                   /\ UNCHANGED <<todos, now>>
              ELSE /\ todos' = {IF r.id = in.id THEN updateData(r, in, t) ELSE r
                                  : r \in todos}
                   /\ now' = t
                   /\ \E r \in existing : ret' = returned(updateData(r, in, t))
    /\ UNCHANGED <<users, categories, nextId>>
    /\ UNCHANGED syncVars

\* mutant: the row is looked up and deleted by id alone
deleteTodoAnyOwner(in) ==
    /\ op' = [name |-> "deleteTodo", input |-> in]
    /\ LET existingTodo == {r \in todos : r.id = in.id}
       IN IF existingTodo = {}
          THEN /\ ret' = returned(FALSE)
               /\ UNCHANGED todos
          ELSE /\ todos' = todos \ existingTodo
               /\ ret' = returned(Cardinality(todos) - Cardinality(todos') > 0)
    /\ UNCHANGED <<users, categories, nextId, now>>
    /\ UNCHANGED syncVars

deleteTodo(in) ==
    /\ op' = [name |-> "deleteTodo", input |-> in]
    /\ LET existingTodo == selectTodo(todos, in.id, in.user_id)
       IN IF existingTodo = {}
          THEN /\ ret' = returned(FALSE)
               /\ UNCHANGED todos
          ELSE /\ todos' = deleteTodoRows(todos, in.id, in.user_id)
               /\ ret' = returned(Cardinality(todos) - Cardinality(todos') > 0)
    /\ UNCHANGED <<users, categories, nextId, now>>
    /\ UNCHANGED syncVars

DeleteTodo == \E in \in DeleteInputs : deleteTodo(in)

\* (categoryId, adminAction.admin_user_id): category 1 exists at the start,
\* 2 never does; u2 is the admin
CategoryInputs ==
    {[id |-> c, admin_user_id |-> u] : c \in {1, 2}, u \in {"u1", "u2", "ghost"}}

\* mutant: the todos that reference the category are not looked at
deleteCategoryUnchecked(in) ==
    /\ op' = [name |-> "deleteCategory", input |-> in]
    /\ IF \A u \in users : u.id = in.admin_user_id => ~u.is_admin
       THEN /\ ret' = threw("access_denied")
            /\ UNCHANGED categories
       ELSE IF in.id \notin categories
       THEN /\ ret' = threw("category_not_found")
            /\ UNCHANGED categories
       ELSE /\ categories' = categories \ {in.id}
            /\ ret' = returned(TRUE)
    /\ UNCHANGED <<users, todos, nextId, now>>
    /\ UNCHANGED syncVars

deleteCategory(in) ==
    /\ op' = [name |-> "deleteCategory", input |-> in]
    /\ LET referencingTodos == {r \in todos : r.category_id = in.id}
       IN IF \A u \in users : u.id = in.admin_user_id => ~u.is_admin
          THEN /\ ret' = threw("access_denied")
               /\ UNCHANGED categories
          ELSE IF in.id \notin categories
          THEN /\ ret' = threw("category_not_found")
               /\ UNCHANGED categories
          ELSE IF referencingTodos # {}
          THEN /\ ret' = threw("category_in_use")
               /\ UNCHANGED categories
          ELSE /\ categories' = categories \ {in.id}
               /\ ret' = returned(TRUE)
    /\ UNCHANGED <<users, todos, nextId, now>>
    /\ UNCHANGED syncVars

DeleteCategory == \E in \in CategoryInputs : deleteCategory(in)

\* mutant: the user is looked up first, as syncTodos does
GetTodosChecksUser ==
    /\ \E q \in Queries :
        /\ op' = [name |-> "getTodos", input |-> q]
        /\ ret' = IF userExists(q.user_id) THEN returned(getTodos(todos, q))
                                           ELSE threw("user_not_found")
    /\ UNCHANGED <<users, categories, todos, nextId, now>>
    /\ UNCHANGED syncVars

GetTodos ==
    /\ \E q \in Queries :
        /\ op' = [name |-> "getTodos", input |-> q]
        /\ ret' = returned(getTodos(todos, q))
    /\ UNCHANGED <<users, categories, todos, nextId, now>>
    /\ UNCHANGED syncVars

NextDirect ==
    \/ \E in \in CreateInputs : CreateTodo(in)
    \/ \E in \in UpdateInputs : UpdateTodo(in)
    \/ DeleteTodo
    \/ DeleteCategory

SpecDirect == Init /\ [][NextDirect]_vars

\* getTodos over the stores that creating and completing todos leave
NextQuery ==
    \/ \E in \in CreateInputs : CreateTodo(in)
    \/ \E in \in CompleteInputs : UpdateTodo(in)
    \/ GetTodos

SpecQuery == Init /\ [][NextQuery]_vars

\* ------------------------------------------------------------------ all handlers

\* The steps of one syncTodos call interleaved with whole calls of the
\* direct handlers, as other requests are served between its awaits.

\* a delete of the caller's row, a create in category 1, an update that
\* sets category 1
MixedEntries ==
    {plain(1, 0, TRUE), full(Undef, 1, FALSE), full(1, 2, FALSE)}

\* the direct calls served in between: a create in category 1, updates of
\* todo 1 that touch its category, deletes of todo 1, deletes of category 1
MixedCreates == {in \in CreateInputs : in.category_id = 1}

MixedUpdates == {in \in UpdateInputs : in.id = 1 /\ given(in, "category_id")}

MixedDeletes == {in \in DeleteInputs : in.id = 1 /\ in.user_id # "ghost"}

MixedCategories == {in \in CategoryInputs : in.id = 1 /\ in.admin_user_id # "ghost"}

MixedBatches == UNION {[1..n -> MixedEntries] : n \in 1..MaxBatch}

\* a client calls syncTodos with one of these batches
SyncStartMixed ==
    /\ pc = "idle"
    /\ \E b \in MixedBatches : SyncBegin("u1", b)
    /\ UNCHANGED <<attempt, firstSynced, op, ret, calls>>

NextMixed ==
    \/ SyncStartMixed
    \/ SyncStep
    \/ \E in \in MixedCreates : CreateTodo(in)
    \/ \E in \in MixedUpdates : UpdateTodo(in)
    \/ \E in \in MixedDeletes : deleteTodo(in)
    \/ \E in \in MixedCategories : deleteCategory(in)

SpecMixed == Init /\ [][NextMixed]_vars

\* ------------------------------------------------------------------ claims

\* the entry the loop is about to process
entry == batch[idx]

\* the caller's row with the id of entry e, as a set (empty or one row)
owned(e) == {r \in todos : r.id = e.id /\ r.user_id = caller}

lastOf(s) == s[Len(s)]

\* C1: an update entry whose owned row has updated_at strictly greater than
\* the entry's client_updated_at puts the current server row into conflicts,
\* adds nothing to synced and leaves the store as it was.
C1_ConflictKeepsServerRow ==
    [][(pc = "running" /\ ~entry.is_deleted
          /\ \E r \in owned(entry) : r.updated_at > entry.client_updated_at)
       => /\ \A r \in owned(entry) : conflicts' = Append(conflicts, r)
          /\ synced' = synced
          /\ todos' = todos
          /\ pc' # "failed"]_vars

C1_Witness ==
    /\ pc = "returned"
    /\ batch = <<plain(1, 0, FALSE)>>
    /\ synced = <<>>
    /\ Len(conflicts) = 1
    /\ conflicts[1].id = 1
    /\ conflicts[1].title = "s"

\* C2: an update entry whose client_updated_at equals the owned row's
\* updated_at is no conflict: the update is applied, the updated row is
\* appended to synced and conflicts gets nothing.
C2_TieIsNoConflict ==
    [][(pc = "running" /\ ~entry.is_deleted
          /\ \E r \in owned(entry) : r.updated_at = entry.client_updated_at)
       => /\ conflicts' = conflicts
          /\ Len(synced') = Len(synced) + 1
          /\ lastOf(synced') \in todos'
          /\ lastOf(synced').id = entry.id
          /\ lastOf(synced').title = entry.title
          /\ lastOf(synced').client_updated_at = entry.client_updated_at
          /\ pc' # "failed"]_vars

C2_Witness ==
    /\ pc = "returned"
    /\ batch = <<full(1, 1, FALSE)>>
    /\ conflicts = <<>>
    /\ Len(synced) = 1
    /\ synced[1].id = 1
    /\ synced[1].title = "b"
    /\ synced[1] \in todos

\* C3: sending a batch that was synced successfully a second time, with the
\* same client_updated_at values, succeeds with no conflicts and returns in
\* synced the same rows as the first time, as they are stored now.
C3_ResyncIsIdempotent ==
    (attempt = 2 /\ pc \in {"returned", "failed"})
       => /\ pc = "returned"
          /\ conflicts = <<>>
          /\ Len(synced) = Len(firstSynced)
          /\ \A i \in 1..Len(synced) :
                synced[i].id = firstSynced[i].id /\ synced[i] \in todos

\* C4: an update entry whose id is a row of another user fails the call
\* with the not-found/access-denied error and leaves the store unchanged.
C4_CrossUserUpdateFails ==
    [][(pc = "running" /\ ~entry.is_deleted
          /\ \E r \in todos : r.id = entry.id /\ r.user_id # caller)
       => /\ pc' = "failed"
          /\ err' = "todo_not_found"
          /\ todos' = todos]_vars

C4_Witness ==
    /\ pc = "failed"
    /\ err = "todo_not_found"
    /\ idx = 2
    /\ batch[2] = full(2, 2, FALSE)
    /\ \E r \in todos : r.id = 2 /\ r.user_id = "u2" /\ r.title = "s"

\* C5: a call whose user_id is not in users fails with the user not-found
\* error before any entry is processed, and the store never changes.
C5_UnknownUserFailsFirst ==
    [][/\ (pc = "idle" /\ ~(\E u \in users : u.id = caller'))
            => /\ pc' = "failed"
               /\ err' = "user_not_found"
               /\ todos' = todos
               /\ nextId' = nextId
       /\ err = "user_not_found" => todos' = todos /\ pc' = "failed"]_vars

C5_Witness ==
    /\ pc = "failed"
    /\ err = "user_not_found"
    /\ caller = "ghost"
    /\ Len(batch) = 2
    /\ batch[1] = plain(Undef, 0, FALSE)
    /\ batch[2] = plain(1, 0, TRUE)
    /\ Cardinality(todos) = 2

\* C6: a batch in which any entry, deleted or not, carries a category_id
\* that is not null and not in categories fails the call with the category
\* not-found error before any write.
C6_MissingCategoryFailsBatch ==
    [][/\ (/\ pc = "idle"
           /\ \E u \in users : u.id = caller'
           /\ \E i \in 1..Len(batch') :
                 /\ batch'[i].category_id \notin {Null, Undef}
                 /\ batch'[i].category_id \notin categories)
            => /\ pc' = "failed"
               /\ err' = "category_not_found"
               /\ todos' = todos
               /\ nextId' = nextId
       /\ err = "category_not_found" => todos' = todos /\ pc' = "failed"]_vars

C6_Witness ==
    /\ pc = "failed"
    /\ err = "category_not_found"
    /\ caller = "u1"
    /\ Len(batch) = 2
    /\ batch[1] = full(Undef, 1, FALSE)
    /\ batch[2] = orphan(1, 2, TRUE)
    /\ Cardinality(todos) = 2

C8_SoftDeleteRemovesRow ==
    [][/\ (pc = "running" /\ entry.is_deleted /\ owned(entry) # {})
            => /\ todos' = todos \ owned(entry)
               /\ synced' = synced
               /\ conflicts' = conflicts
               /\ pc' # "failed"
               /\ \A q \in Queries :
                     \A r \in getTodos(todos', q) : r.id # entry.id
       /\ \A i \in 1..(nextId - 1) :
             (\A r \in todos : r.id # i) => (\A r \in todos' : r.id # i)]_vars

C8_Witness ==
    /\ pc = "returned"
    /\ batch = <<plain(1, 2, TRUE), plain(Undef, 2, FALSE)>>
    /\ \A r \in todos : r.id # 1
    /\ Len(synced) = 1
    /\ synced[1].id = 3
    /\ conflicts = <<>>
    /\ getTodos(todos, [user_id |-> "u1"]) = {synced[1]}

\* C9: an entry with no id and is_deleted = false inserts exactly one row
\* owned by the caller, under an id no row has and none had, with the
\* entry's fields, client_updated_at as given and last_synced_at at the
\* write time, and appends that row to synced.
C9_CreateInsertsOneRow ==
    [][(pc = "running" /\ ~entry.is_deleted /\ entry.id = Undef)
       => \E r \in todos' :
             /\ r \notin todos
             /\ todos' = todos \cup {r}
             /\ \A x \in todos : x.id # r.id
             /\ r.id >= nextId
             /\ nextId' > r.id
             /\ r.user_id = caller
             /\ r.title = entry.title
             /\ r.is_completed = entry.is_completed
             /\ r.priority = entry.priority
             /\ r.category_id = IF entry.category_id = Undef
                                  THEN Null ELSE entry.category_id
             /\ r.description = IF entry.description = Undef
                                  THEN Null ELSE entry.description
             /\ r.due_date = IF entry.due_date = Undef
                               THEN Null ELSE entry.due_date
             /\ r.client_updated_at = entry.client_updated_at
             /\ r.last_synced_at = now'
             /\ synced' = Append(synced, r)
             /\ conflicts' = conflicts
             /\ pc' # "failed"]_vars

C9_Witness ==
    /\ pc = "returned"
    /\ batch = <<full(Undef, 1, FALSE), plain(Undef, 0, FALSE)>>
    /\ Len(synced) = 2
    /\ synced[1].id = 3 /\ synced[1].category_id = 1
    /\ synced[2].id = 4 /\ synced[2].category_id = Null
    /\ synced[2].client_updated_at = 0
    /\ synced[2].last_synced_at = now
    /\ {synced[1], synced[2]} \subseteq todos
    /\ Cardinality(todos) = 4

\* C10: an update entry whose owned row has updated_at not greater than the
\* entry's client_updated_at writes the entry's fields (a field the entry
\* leaves out keeps its value), sets updated_at and last_synced_at to the
\* write time and client_updated_at as given, and appends the stored row to
\* synced.
C10_UpdateWritesEntry ==
    [][(pc = "running" /\ ~entry.is_deleted
          /\ \E r \in owned(entry) : r.updated_at <= entry.client_updated_at)
       => \A r \in owned(entry) : \E w \in todos' :
             /\ todos' = (todos \ {r}) \cup {w}
             /\ w.id = r.id
             /\ w.user_id = r.user_id
             /\ w.created_at = r.created_at
             /\ w.title = entry.title
             /\ w.is_completed = entry.is_completed
             /\ w.priority = entry.priority
             /\ w.category_id = IF entry.category_id = Undef
                                  THEN r.category_id ELSE entry.category_id
             /\ w.description = IF entry.description = Undef
                                  THEN r.description ELSE entry.description
             /\ w.due_date = IF entry.due_date = Undef
                               THEN r.due_date ELSE entry.due_date
             /\ w.updated_at = now'
             /\ w.last_synced_at = now'
             /\ w.client_updated_at = entry.client_updated_at
             /\ synced' = Append(synced, w)
             /\ conflicts' = conflicts
             /\ pc' # "failed"]_vars

C10_Witness ==
    /\ pc = "returned"
    /\ batch = <<uncat(1, 2, FALSE), plain(1, 2, FALSE)>>
    /\ now = 2
    /\ conflicts = <<>>
    /\ Len(synced) = 2
    /\ synced[1].category_id = Null /\ synced[1].description = 2
    /\ synced[2].category_id = Null /\ synced[2].description = 2
    /\ synced[2].title = "a" /\ synced[2].updated_at = 2
    /\ synced[2].last_synced_at = 2
    /\ synced[2] \in todos


\* s2 is s1 with one more element at its end
extends(s1, s2) == Len(s2) = Len(s1) + 1 /\ SubSeq(s2, 1, Len(s1)) = s1

\* C11: the entries are taken in batch order, one per step, and a step only
\* ever adds at the end of synced or of conflicts the row of the entry it
\* took: a deleted entry adds nothing, a conflicted update adds nothing to
\* synced.  So both lists are in the order of the entries that produced them.
C11_OutputFollowsBatchOrder ==
    [][pc = "running"
       => /\ pc' # "failed" => idx' = idx + 1
          /\ \/ synced' = synced
             \/ /\ extends(synced, synced')
                /\ ~entry.is_deleted
                /\ lastOf(synced').title = entry.title
                /\ lastOf(synced').client_updated_at = entry.client_updated_at
                /\ hasId(entry) => lastOf(synced').id = entry.id
                /\ conflicts' = conflicts
          /\ \/ conflicts' = conflicts
             \/ /\ extends(conflicts, conflicts')
                /\ ~entry.is_deleted
                /\ lastOf(conflicts').id = entry.id
                /\ synced' = synced
          /\ entry.is_deleted => synced' = synced /\ conflicts' = conflicts]_vars

C11_Witness ==
    /\ pc = "returned"
    /\ batch = <<plain(Undef, 0, FALSE), plain(1, 0, FALSE), full(1, 2, FALSE)>>
    /\ Len(synced) = 2
    /\ synced[1].id = 3 /\ synced[1].title = "a"
    /\ synced[2].id = 1 /\ synced[2].title = "b"
    /\ Len(conflicts) = 1

\* the number of is_deleted entries among the first n of b
deletedIn(b, n) == Cardinality({i \in 1..n : b[i].is_deleted})

\* C12: every entry the loop has gone through has exactly one outcome, so
\* the rows in synced, the rows in conflicts and the deleted entries add up
\* to the number of entries processed, and on return to the batch length.
C12_OutcomePartition ==
    pc \in {"running", "returned"}
    => /\ Len(synced) + Len(conflicts) + deletedIn(batch, idx - 1) = idx - 1
       /\ pc = "returned" => idx - 1 = Len(batch)

\* one create, one update without conflict, one update with conflict
C12_Witness ==
    /\ pc = "returned"
    /\ batch = <<plain(1, 0, FALSE), plain(Undef, 2, FALSE), full(1, 1, FALSE)>>
    /\ Len(synced) = 2
    /\ Len(conflicts) = 1
    /\ conflicts[1].id = 1 /\ conflicts[1].title = "s"
    /\ {synced[1].id, synced[2].id} = {1, 3}

\* s1 is an initial part of s2
isPrefix(s1, s2) == Len(s1) <= Len(s2) /\ SubSeq(s2, 1, Len(s1)) = s1

\* C13 as stated: once a conflict has been detected the call ends in a
\* successful result that carries it.  It does not hold: a later entry that
\* fails its existence check makes the call throw, and the caller gets
\* neither list.
C13_ConflictAlwaysReturned == conflicts # <<>> => pc # "failed"

\* C13: the step that detects a conflict throws nothing, puts the server row
\* at the end of conflicts and goes on to the next entry; no later step takes
\* a row out of conflicts or synced; and the only way the call can still fail
\* is a later update entry that matches no row of the caller.
C13_ConflictIsNotAnError ==
    [][pc = "running"
       => /\ (~entry.is_deleted
                /\ \E r \in owned(entry) : r.updated_at > entry.client_updated_at)
             => /\ pc' \in {"running", "returned"}
                /\ err' = "none"
                /\ idx' = idx + 1
                /\ extends(conflicts, conflicts')
                /\ lastOf(conflicts') \in owned(entry)
          /\ isPrefix(conflicts, conflicts')
          /\ isPrefix(synced, synced')
          /\ pc' = "failed"
             => /\ err' = "todo_not_found"
                /\ ~entry.is_deleted /\ hasId(entry) /\ owned(entry) = {}]_vars

\* a conflict on the first entry, the second entry synced, both returned
C13_Witness ==
    /\ pc = "returned"
    /\ batch = <<plain(1, 0, FALSE), plain(Undef, 0, FALSE)>>
    /\ Len(conflicts) = 1 /\ conflicts[1].id = 1
    /\ Len(synced) = 1 /\ synced[1].id = 3

\* the positions among the first n of b that hold a create entry
createsIn(b, n) == {i \in 1..n : ~b[i].is_deleted /\ ~hasId(b[i])}

\* the position of the create entry whose row got id, the ids of a call
\* being given out in batch order from first on
createOf(b, n, first, id) ==
    CHOOSE p \in createsIn(b, n) :
        Cardinality({i \in createsIn(b, n) : i <= p}) = id - first + 1

\* the positions after p among the first n of b that hold a delete of id
deletesOf(b, p, n, id) == {i \in (p + 1)..n : b[i].is_deleted /\ b[i].id = id}

\* C14: an update entry at position k that matches no row of the caller
\* makes the call fail with the one error; that step writes nothing, the
\* call takes no further step, and what the entries before k did is still in
\* the store: each of them that was a create has its row (ids from 3 on,
\* after the two rows the store starts with) exactly if no delete between it
\* and k took the row, and each of them that was a delete of a row the store
\* started with has left no such row of the caller.
C14_FailureKeepsEarlierWrites ==
    [][/\ pc # "failed"
       /\ (pc = "running" /\ ~entry.is_deleted /\ hasId(entry)
             /\ owned(entry) = {})
          => /\ pc' = "failed"
             /\ err' = "todo_not_found"
             /\ idx' = idx
             /\ todos' = todos /\ nextId' = nextId
             /\ synced' = synced /\ conflicts' = conflicts
             /\ nextId' = 3 + Cardinality(createsIn(batch, idx - 1))
             /\ \A id \in 3..(nextId' - 1) :
                    selectTodo(todos', id, caller) # {}
                    <=> deletesOf(batch, createOf(batch, idx - 1, 3, id),
                                  idx - 1, id) = {}
             /\ \A j \in 1..(idx - 1) :
                    (batch[j].is_deleted /\ hasId(batch[j]) /\ batch[j].id < 3)
                    => selectTodo(todos', batch[j].id, caller) = {}]_vars

\* a create, then an update of another user's row, then a create never run
C14_Witness ==
    /\ pc = "failed"
    /\ err = "todo_not_found"
    /\ batch = <<plain(Undef, 0, FALSE), full(2, 2, FALSE), plain(Undef, 2, FALSE)>>
    /\ idx = 2
    /\ \E r \in todos : r.id = 3 /\ r.user_id = "u1"
    /\ Cardinality(todos) = 3
    /\ nextId = 4

\* the last call was getTodos
queried == op.name = "getTodos"

\* the rows of the user the last query asked for
mine == {r \in todos : r.user_id = op.input.user_id}

\* C15: whatever the filters and the store, every row getTodos returned has
\* the user_id of the query.
C15_QueryScopedToUser ==
    queried => ret.ok /\ \A r \in ret.value : r.user_id = op.input.user_id

\* u1 asks with no filter while the store also holds a row of u2
C15_Witness ==
    /\ queried
    /\ op.input = [user_id |-> "u1"]
    /\ ret.value # {}
    /\ \E r \in todos : r.user_id = "u2"

\* row r meets the one filter f with value v
satisfies(r, f, v) ==
    CASE f = "category_id" -> r.category_id = v
      [] f = "is_completed" -> r.is_completed = v
      [] f = "priority" -> r.priority = v
      [] f = "due_before" -> r.due_date # Null /\ r.due_date <= v
      [] f = "due_after" -> r.due_date # Null /\ r.due_date >= v
      [] f = "last_synced_after" -> r.client_updated_at >= v

\* C16: getTodos returned exactly the rows of the user that meet every
\* filter the query carries; a filter the query leaves out excludes nothing.
C16_FiltersComposeByAnd ==
    queried
    => ret.value = {r \in mine : \A f \in DOMAIN op.input \ {"user_id"} :
                                     satisfies(r, f, op.input[f])}

\* category, completion and priority together keep one of the two rows of u1
C16_Witness ==
    /\ queried
    /\ op.input = [user_id |-> "u1", category_id |-> 1, is_completed |-> FALSE,
                   priority |-> "high"]
    /\ Cardinality(ret.value) = 1
    /\ Cardinality(mine) = 2
    /\ \E r \in mine : r.category_id = 1 /\ ~r.is_completed /\ r.priority # "high"

\* the filters the last query carries
filters == DOMAIN op.input \ {"user_id"}

\* C17: a row returned under due_before = D has a due_date, and it is <= D;
\* under due_after = D it has a due_date >= D.  With the one bound as the
\* only filter the result is every such row of the user, the rows due
\* exactly at D included and the rows without a due_date left out.
C17_DueBoundsInclusive ==
    queried
    => /\ given(op.input, "due_before")
          => \A r \in ret.value :
                 r.due_date # Null /\ r.due_date <= op.input.due_before
       /\ given(op.input, "due_after")
          => \A r \in ret.value :
                 r.due_date # Null /\ r.due_date >= op.input.due_after
       /\ filters = {"due_before"}
          => \A r \in mine :
                 (r.due_date # Null /\ r.due_date <= op.input.due_before)
                 => r \in ret.value
       /\ filters = {"due_after"}
          => \A r \in mine :
                 (r.due_date # Null /\ r.due_date >= op.input.due_after)
                 => r \in ret.value

\* due_before = 2 returns the row of u1 due at 2, not the one without due_date
C17_Witness ==
    /\ queried
    /\ op.input = [user_id |-> "u1", due_before |-> 2]
    /\ \E r \in ret.value : r.due_date = 2
    /\ \E r \in mine : r.due_date = Null /\ r \notin ret.value

\* C18: under last_synced_after = W every returned row has
\* client_updated_at >= W, and with W as the only filter the result is every
\* row of the user with client_updated_at >= W, whatever its updated_at and
\* last_synced_at are.
C18_PullByClientClock ==
    queried
    => /\ given(op.input, "last_synced_after")
          => \A r \in ret.value :
                 r.client_updated_at >= op.input.last_synced_after
       /\ filters = {"last_synced_after"}
          => \A r \in mine :
                 r.client_updated_at >= op.input.last_synced_after
                 => r \in ret.value

\* a row written on the server at W or later with an older client clock is
\* left out, a row with client clock W is returned
C18_Witness ==
    /\ queried
    /\ op.input = [user_id |-> "u2", last_synced_after |-> 1]
    /\ \E r \in mine : /\ r.client_updated_at < 1
                       /\ r.updated_at >= 1 /\ r.last_synced_at >= 1
                       /\ r \notin ret.value
    /\ \E r \in ret.value : r.client_updated_at = 1

\* C19: a getTodos call throws nothing and writes nothing; when no row of
\* the store is a row of the given user that meets the filters, and so in
\* particular when the user_id is of no user, it returns the empty result.
C19_QueryNeverFails ==
    [][op'.name = "getTodos"
       => /\ ret'.ok
          /\ UNCHANGED <<users, categories, todos, nextId>>
          /\ (\A r \in todos :
                 \/ r.user_id # op'.input.user_id
                 \/ \E f \in DOMAIN op'.input \ {"user_id"} :
                        ~satisfies(r, f, op'.input[f]))
             => ret'.value = {}
          /\ ~userExists(op'.input.user_id) => ret'.value = {}]_vars

\* a user_id that is no user's, asked over a store that holds rows
C19_Witness ==
    /\ queried
    /\ op.input = [user_id |-> "ghost"]
    /\ ~userExists("ghost")
    /\ ret = returned({})
    /\ todos # {}

\* C20: deleteTodo(id, user_id) throws nothing.  If the store holds a row
\* with that id and that user_id, it is the only one, the call removes it,
\* leaves every other row as it was and returns true; otherwise (no row with
\* the id, or a row of another user) it returns false and the store is as it
\* was.
C20_DirectDelete ==
    [][op'.name = "deleteTodo"
       => LET hit == {r \in todos : /\ r.id = op'.input.id
                                    /\ r.user_id = op'.input.user_id}
          IN /\ ret'.ok
             /\ UNCHANGED <<users, categories, nextId>>
             /\ IF hit # {}
                THEN /\ Cardinality(hit) = 1
                     /\ todos' = todos \ hit
                     /\ ret'.value = TRUE
                ELSE /\ todos' = todos
                     /\ ret'.value = FALSE]_vars

\* u1 has deleted its row 1; the row of u2 is still there
C20_Witness ==
    /\ op = [name |-> "deleteTodo", input |-> [id |-> 1, user_id |-> "u1"]]
    /\ ret = returned(TRUE)
    /\ \A r \in todos : r.id # 1
    /\ \E r \in todos : r.id = 2 /\ r.user_id = "u2"

\* C21: a deleteCategory call writes no todo.  It removes the category and
\* returns true exactly when the caller is an admin, the category exists
\* and no todo of any user references it; in every other case it throws and
\* the categories are as they were, so a referenced category stays.
C21_ReferencedCategoryStays ==
    [][op'.name = "deleteCategory"
       => LET in == op'.input
              isAdmin == \E u \in users : u.id = in.admin_user_id /\ u.is_admin
              referenced == \E r \in todos : r.category_id = in.id
          IN /\ todos' = todos
             /\ IF isAdmin /\ in.id \in categories /\ ~referenced
                THEN /\ ret' = returned(TRUE)
                     /\ categories' = categories \ {in.id}
                ELSE /\ ~ret'.ok
                     /\ categories' = categories
             /\ (isAdmin /\ in.id \in categories /\ referenced)
                => ret' = threw("category_in_use")]_vars

\* the admin is refused category 1 while a todo of u1 references it
C21_Witness ==
    /\ op = [name |-> "deleteCategory",
             input |-> [id |-> 1, admin_user_id |-> "u2"]]
    /\ ret = threw("category_in_use")
    /\ 1 \in categories
    /\ \E r \in todos : r.category_id = 1 /\ r.user_id = "u1"

\* C22: nothing keeps a second call from selecting a row between the select
\* and the update of a first call, and the update of a call that has passed
\* its conflict check is applied without looking at the row again: it
\* writes the entry over whatever the row holds by then, returns the
\* written row in synced and reports no conflict.
C22_UpdateOverwritesUnseenWrite ==
    [][\A c \in RaceIds :
         (calls[c].pc = "update" /\ calls'[c].pc # "update")
         => /\ calls'[c].pc = "returned"
            /\ calls'[c].conflicts = <<>>
            /\ Len(calls'[c].synced) = 1
            /\ calls'[c].synced[1] \in todos'
            /\ calls'[c].synced[1].id = calls[c].entry.id
            /\ calls'[c].synced[1].title = calls[c].entry.title
            /\ calls'[c].synced[1].client_updated_at
                 = calls[c].entry.client_updated_at
            /\ \A r \in todos' : r.id = calls[c].entry.id
                                 => r = calls'[c].synced[1]]_vars

\* both calls selected the row as it was at the start, a wrote at time 2,
\* then b wrote an entry with client clock 1 over it; neither has a conflict
\* and the row a returned is no longer in the store
C22_Witness ==
    /\ calls["a"].pc = "returned" /\ calls["b"].pc = "returned"
    /\ calls["a"].entry = plain(1, 1, FALSE)
    /\ calls["b"].entry = full(1, 1, FALSE)
    /\ calls["a"].existing = calls["b"].existing
    /\ calls["a"].conflicts = <<>> /\ calls["b"].conflicts = <<>>
    /\ Len(calls["a"].synced) = 1 /\ Len(calls["b"].synced) = 1
    /\ calls["a"].synced[1].updated_at = 2
    /\ calls["b"].entry.client_updated_at < calls["a"].synced[1].updated_at
    /\ calls["a"].synced[1] \notin todos
    /\ calls["b"].synced[1] \in todos

\* C23 as stated: in every state reachable by interleaving the steps of
\* syncTodos with createTodo, updateTodo and deleteCategory, a stored todo
\* with a category_id references a category that exists.  It does not hold:
\* syncTodos checks the categories of the batch once, before its loop, and
\* a deleteCategory served between two loop steps removes a category that a
\* later entry of the batch then writes.
C23_CategoryOfTodoExists ==
    \A r \in todos : r.category_id # Null => r.category_id \in categories

C25_UpdateTodoSetsLastSynced ==
    (op.name = "updateTodo" /\ ret.ok)
    => ret.value.last_synced_at = ret.value.updated_at

\* C26 as stated: a pull with last_synced_after = W as its only filter
\* returns every row of the user that was created or modified on the server
\* after W, that is, every row of the user with updated_at > W.  It does not
\* hold: the filter reads client_updated_at, which the writing device
\* supplies, and a write made after W may carry an older client clock.
C26_PullReturnsLaterWrites ==
    (queried /\ filters = {"last_synced_after"})
    => \A r \in mine :
           r.updated_at > op.input.last_synced_after => r \in ret.value

\* the rows that are not the caller's
foreign(store) == {r \in store : r.user_id # caller}

\* C27: the checks at the start of a syncTodos call write nothing; no step
\* of its loop, the step that makes it fail included, adds, changes or
\* removes a row that is not the caller's, and every row a step adds to the
\* store is the caller's.
C27_OtherUsersRowsUntouched ==
    [][/\ pc = "idle" => todos' = todos
       /\ pc = "running"
          => /\ foreign(todos') = foreign(todos)
             /\ \A r \in todos' \ todos : r.user_id = caller]_vars

\* u1 sent a delete with the id of u2's row and then a create; u2's row is
\* as it was and the new row is u1's
C27_Witness ==
    /\ pc = "returned"
    /\ caller = "u1"
    /\ batch = <<plain(2, 0, TRUE), plain(Undef, 0, FALSE)>>
    /\ mkRow(2, "u2", Null, "s", Null, FALSE, 1, "medium", 1, 1, 1, 1) \in todos
    /\ \E r \in todos : r.id = 3 /\ r.user_id = "u1"

\* C28: a step on an entry whose id matches no row of the caller does the
\* same whether the id is of another user's row or of no row at all.  An
\* update entry fails the call with the one not-found-or-access-denied
\* error, a delete entry is passed over; in both cases the store, synced
\* and conflicts are as they were.
C28_ForeignIdLikeAbsentId ==
    [][(pc = "running" /\ hasId(entry) /\ owned(entry) = {})
       => /\ todos' = todos /\ nextId' = nextId
          /\ synced' = synced /\ conflicts' = conflicts
          /\ IF entry.is_deleted
             THEN pc' # "failed" /\ err' = "none" /\ idx' = idx + 1
             ELSE pc' = "failed" /\ err' = "todo_not_found" /\ idx' = idx]_vars

\* an update with the id of u2's row ends as an update of a missing id does
C28_Witness ==
    /\ pc = "failed"
    /\ err = "todo_not_found"
    /\ caller = "u1"
    /\ batch = <<full(2, 2, FALSE)>>
    /\ \E r \in todos : r.id = 2 /\ r.user_id = "u2" /\ r.title = "s"
    /\ synced = <<>> /\ conflicts = <<>>

\* C29: a delete entry with an id removes the caller's row with that id
\* without comparing clocks, so also when the row's updated_at is greater
\* than the entry's client_updated_at, and it adds nothing to conflicts or
\* to synced.
C29_DeleteSkipsConflictCheck ==
    [][(pc = "running" /\ entry.is_deleted)
       => /\ conflicts' = conflicts
          /\ synced' = synced
          /\ \A r \in owned(entry) :
                 r.updated_at > entry.client_updated_at => r \notin todos'
          /\ hasId(entry) => todos' = todos \ owned(entry)]_vars

\* row 1 was written at time 1, the delete entry claims client time 0
C29_Witness ==
    /\ pc = "returned"
    /\ batch = <<plain(1, 0, TRUE)>>
    /\ conflicts = <<>>
    /\ synced = <<>>
    /\ \A r \in todos : r.id # 1

\* C30: whichever handler takes a step, a row that is in the store before
\* and after it under the same id has the same user_id and the same
\* created_at; and a row that is new takes the next id of the sequence, so
\* the id of a row that was deleted is never given to another row.
C30_OwnerAndCreatedAtFixed ==
    [][/\ \A r \in todos : \A r2 \in todos' :
              r.id = r2.id
              => r2.user_id = r.user_id /\ r2.created_at = r.created_at
       /\ \A r2 \in todos' :
              (\A r \in todos : r.id # r2.id)
              => r2.id = nextId /\ nextId' = nextId + 1
       /\ nextId' >= nextId]_vars

\* todo 1 of u1, created at 1, after an updateTodo at time 2
C30_Witness ==
    /\ op.name = "updateTodo"
    /\ ret.ok
    /\ ret.value \in todos
    /\ ret.value.id = 1
    /\ ret.value.updated_at = 2
    /\ ret.value.user_id = "u1"
    /\ ret.value.created_at = 1
    /\ pc = "returned"

=========================================================================
